---- MODULE Spec2Model ----
(***************************************************************************)
(* Model of the TTvfs virtual disk (src/VirtualFileSystem.cpp, driven by   *)
(* the commands of src/main.cpp).  The backing container is the variable   *)
(* disk; sb, directory and FAT are the members of the VirtualFileSystem    *)
(* handle of the command that ran last; hostOut is what that command      *)
(* wrote to a host file (dget) or the ranges it printed (dmap), and last   *)
(* is its outcome (with the bare name of the host file of a dput, the      *)
(* content it imported, the file name of a ddel or dget that succeeded and *)
(* of a failed dget that follows the import of that name, the blocks a     *)
(* ddel freed, kept by the dput of the same name that follows it).  Every  *)
(* command of main.cpp builds a fresh handle, loads the disk, runs one operation and  *)
(* destroys the handle.  disk holds what was handed to the fstream (stream *)
(* buffering is not modelled).  deleted counts the files deleted from the  *)
(* disk since it was made; the model stops deleting at MaxDeleted.         *)
(* pc and ctx serve the stepwise commands only: pc is the place a command  *)
(* has reached ("idle" between commands) and ctx holds its locals.         *)
(*                                                                         *)
(* Characters and bytes are numbers 0..255; names are tuples of them.      *)
(* Block indices, directory slots and FAT indices are 0-based as in the    *)
(* source; the bytes of a name field are a 1-based tuple.                  *)
(*                                                                         *)
(* The bytes of a host file and of a data block are kept as a sequence of  *)
(* runs: the run [seed, off, len] stands for the len bytes                 *)
(* ByteAt(seed, off + 1) .. ByteAt(seed, off + len).  Bytes expands runs   *)
(* to the byte tuple they stand for; two contents are compared by their    *)
(* bytes, never by their runs.                                             *)
(***************************************************************************)
EXTENDS Integers, Sequences, FiniteSets, TLC

VARIABLES disk, sb, directory, FAT, hostOut, last, pc, ctx, deleted

vars == <<disk, sb, directory, FAT, hostOut, last, pc, ctx, deleted>>

-----------------------------------------------------------------------------
(* Program constants *)

\* VirtualFileSystem.h:12 has 64; the model keeps the directory small.
MAX_FILES == 3
\* MAX_FILES as the header declares it; the geometry of createDisk is also
\* computed with it
DECLARED_MAX_FILES == 64
BLOCK_SIZE == 512
DEFAULT_DISK_SIZE == 10 * 1024 * 1024
\* "TTvfs01" and its terminating NUL
FS_NAME == <<84, 84, 118, 102, 115, 48, 49, 0>>
FAT_FREE == 0
FAT_EOF == -1
FAT_RESERVED == -2
\* sizeof(entry.name)
NAME_SIZE == 32
\* sizeof(DirEntry): the pack pragma before it is malformed and ignored, so the
\* struct has its natural layout 32 + 8 + 8 + 1 (+3) + 4.
SIZEOF_DirEntry == 56
\* sizeof(int32_t), one FAT entry
SIZEOF_FatEntry == 4
TYPE_FILE == 70
\* the size limits of dmake
MIN_DISK_SIZE == 4096
MAX_DISK_SIZE == 100 * 1024 * 1024

-----------------------------------------------------------------------------
(* Bounds of the model *)

\* the number of files deleted from one disk
MaxDeleted == 2
\* createDisk is tried on the sizes MIN_DISK_SIZE + k * FormatStride for
\* k up to MaxFormatSteps (and on 0 and 1000)
FormatStride == 37
MaxFormatSteps == 100
\* length of the longest bare host name (the name field holds NAME_SIZE - 1)
MaxNameLen == 33

-----------------------------------------------------------------------------
(* Helpers *)

Min(a, b) == IF a < b THEN a ELSE b

Max(a, b) == IF a > b THEN a ELSE b

Rep(c, n) == [i \in 1..n |-> c]

-----------------------------------------------------------------------------
(* Byte strings as runs *)

\* byte i of the pattern of a seed; seed 0 is the pattern of NUL bytes
ByteAt(seed, i) == IF seed = 0 THEN 0 ELSE (seed * 37 + i) % 256

Run(seed, off, len) == [seed |-> seed, off |-> off, len |-> len]

\* n NUL bytes
Zeros(n) == IF n > 0 THEN <<Run(0, 0, n)>> ELSE <<>>

\* the number of bytes of a run sequence
RECURSIVE RunsLen(_)
RunsLen(runs) ==
    IF runs = <<>> THEN 0 ELSE Head(runs).len + RunsLen(Tail(runs))

\* the first n bytes of a run sequence
RECURSIVE TakeBytes(_, _)
TakeBytes(runs, n) ==
    IF n <= 0 \/ runs = <<>> THEN <<>>
    ELSE LET r == Head(runs)
         IN  IF r.len <= n
             THEN <<r>> \o TakeBytes(Tail(runs), n - r.len)
             ELSE <<Run(r.seed, r.off, n)>>

\* a run sequence without its first n bytes
RECURSIVE DropBytes(_, _)
DropBytes(runs, n) ==
    IF n <= 0 \/ runs = <<>> THEN runs
    ELSE LET r == Head(runs)
         IN  IF r.len <= n
             THEN DropBytes(Tail(runs), n - r.len)
             ELSE <<Run(r.seed, r.off + n, r.len - n)>> \o Tail(runs)

\* the byte tuple a run sequence stands for
RECURSIVE Bytes(_)
Bytes(runs) ==
    IF runs = <<>> THEN <<>>
    ELSE LET r == Head(runs)
         IN  [i \in 1..r.len |-> ByteAt(r.seed, r.off + i)] \o Bytes(Tail(runs))

\* a block of the container after it was sized: BLOCK_SIZE NUL bytes
ZeroBlock == Zeros(BLOCK_SIZE)

-----------------------------------------------------------------------------
(* Records of the file system *)

ZeroSB ==
    [fsName |-> Rep(0, 8), blockSize |-> 0, totalBlocks |-> 0,
     totalDirEntries |-> 0, dirStartBlock |-> 0, dirBlockCount |-> 0,
     fatStartBlock |-> 0, fatBlockCount |-> 0, dataStartBlock |-> 0]

\* DirEntry() / memset(&entry, 0, sizeof(DirEntry))
ZeroEntry ==
    [name |-> Rep(0, NAME_SIZE), size |-> 0, created |-> 0, type |-> 0,
     firstBlock |-> 0]

\* directory(MAX_FILES): the directory of a freshly constructed handle
EmptyDirectory == [i \in 0..(MAX_FILES - 1) |-> ZeroEntry]

\* FAT of a freshly constructed handle: an empty vector
EmptyFAT == [i \in {} |-> 0]

\* no backing file
NoDisk ==
    [exists |-> FALSE, len |-> 0, sb |-> ZeroSB, dir |-> EmptyDirectory,
     fat |-> EmptyFAT, data |-> EmptyFAT]

\* strlen of a char array read from position i on (its end also ends it)
RECURSIVE StrLenFrom(_, _)
StrLenFrom(field, i) ==
    IF i > Len(field) \/ field[i] = 0 THEN i - 1
    ELSE StrLenFrom(field, i + 1)

\* the C string held by a char array: the bytes before the first NUL
CStr(field) == SubSeq(field, 1, StrLenFrom(field, 1))

\* name == field, a std::string (without NUL) against the C string of a char
\* array: equal characters and equal lengths
StrEqC(name, field) ==
    /\ Len(name) <= Len(field)
    /\ \A i \in 1..Len(name) : field[i] = name[i]
    /\ Len(name) = Len(field) \/ field[Len(name) + 1] = 0

\* strncpy(entry.name, fname.c_str(), sizeof(entry.name) - 1) into a zeroed field
StrncpyName(fname) ==
    [i \in 1..NAME_SIZE |->
        IF i <= Min(Len(fname), NAME_SIZE - 1) THEN fname[i] ELSE 0]

\* hostFile.find_last_of("/\\"), as a 1-based position, 0 for npos
RECURSIVE FindLastSep(_, _)
FindLastSep(path, i) ==
    IF i = 0 THEN 0
    ELSE IF path[i] = 47 \/ path[i] = 92 THEN i
    ELSE FindLastSep(path, i - 1)

\* the bare file name of a host path
BareName(path) ==
    LET pos == FindLastSep(path, Len(path))
    IN  IF pos = 0 THEN path ELSE SubSeq(path, pos + 1, Len(path))

-----------------------------------------------------------------------------
(* createDisk *)

\* The disk size rounded to a multiple of BLOCK_SIZE.  The arithmetic of
\* createDisk is uint32_t; for the sizes dmake lets through (at most
\* MAX_DISK_SIZE) no intermediate value reaches 2^32, so none wraps.
RoundedSize(diskSize) ==
    LET s == IF diskSize = 0 THEN DEFAULT_DISK_SIZE ELSE diskSize
    IN  IF s % BLOCK_SIZE # 0
        THEN ((s \div BLOCK_SIZE) + 1) * BLOCK_SIZE
        ELSE s

\* a superblock whose data region starts where the FAT starts
NewSuperBlockNoFat(size) ==
    LET total    == size \div BLOCK_SIZE
        dirCount == (MAX_FILES * SIZEOF_DirEntry + BLOCK_SIZE - 1) \div BLOCK_SIZE
        fatCount == (total * SIZEOF_FatEntry + BLOCK_SIZE - 1) \div BLOCK_SIZE
    IN  [fsName |-> FS_NAME, blockSize |-> BLOCK_SIZE, totalBlocks |-> total,
         totalDirEntries |-> MAX_FILES, dirStartBlock |-> 1,
         dirBlockCount |-> dirCount, fatStartBlock |-> 1 + dirCount,
         fatBlockCount |-> fatCount, dataStartBlock |-> 1 + dirCount]

\* the superblock createDisk computes for a rounded disk size, for a
\* directory of n entries
SuperBlockOf(n, size) ==
    LET total    == size \div BLOCK_SIZE
        dirBytes == n * SIZEOF_DirEntry
        dirCount == (dirBytes + BLOCK_SIZE - 1) \div BLOCK_SIZE
        fatStart == 1 + dirCount
        fatBytes == total * SIZEOF_FatEntry
        fatCount == (fatBytes + BLOCK_SIZE - 1) \div BLOCK_SIZE
    IN  [fsName |-> FS_NAME, blockSize |-> BLOCK_SIZE, totalBlocks |-> total,
         totalDirEntries |-> n, dirStartBlock |-> 1,
         dirBlockCount |-> dirCount, fatStartBlock |-> fatStart,
         fatBlockCount |-> fatCount,
         dataStartBlock |-> fatStart + fatCount]

\* the superblock createDisk computes for a rounded disk size
NewSuperBlock(size) == SuperBlockOf(MAX_FILES, size)

\* a marking loop that stops one block early
NewFATShort(sbv) ==
    [i \in 0..(sbv.totalBlocks - 1) |->
        IF i < sbv.dataStartBlock - 1 THEN FAT_RESERVED ELSE FAT_FREE]

\* FAT.assign(totalBlocks, FAT_FREE) and the loop marking the metadata blocks
NewFAT(sbv) ==
    [i \in 0..(sbv.totalBlocks - 1) |->
        IF i < sbv.dataStartBlock THEN FAT_RESERVED ELSE FAT_FREE]

\* The loop of createDisk writes FAT[i] for every i < dataStartBlock: it stays
\* inside the vector only when the metadata fits in the volume.
MetadataFits(sbv) == sbv.dataStartBlock <= sbv.totalBlocks

-----------------------------------------------------------------------------
(* Reading and writing the regions of the container *)

\* A write that ends past the end of the container lengthens it: len is the
\* length of the backing file.
writeSuperblock(d, sbv) ==
    [d EXCEPT !.sb = sbv, !.len = Max(@, BLOCK_SIZE)]

writeDirectory(d, sbv, dir) ==
    [d EXCEPT !.dir = dir,
              !.len = Max(@, (sbv.dirStartBlock + sbv.dirBlockCount) * BLOCK_SIZE)]

\* a writeFAT that writes nothing
writeFATNothing(d, sbv, fat) == d

writeFAT(d, sbv, fat) ==
    [d EXCEPT !.fat = fat,
              !.len = Max(@, (sbv.fatStartBlock + sbv.fatBlockCount) * BLOCK_SIZE)]

\* strncmp(sb.fsName, FS_NAME, strlen(FS_NAME)) == 0
readSuperblock(d) ==
    LET n == Len(CStr(FS_NAME))
    IN  CStr(SubSeq(d.sb.fsName, 1, n)) = CStr(SubSeq(FS_NAME, 1, n))

\* the handle after loadDisk: ok is its result
loadDisk(d) ==
    IF ~d.exists
    THEN [ok |-> FALSE, sb |-> ZeroSB, directory |-> EmptyDirectory,
          FAT |-> EmptyFAT]
    ELSE IF ~readSuperblock(d)
    THEN [ok |-> FALSE, sb |-> d.sb, directory |-> EmptyDirectory,
          FAT |-> EmptyFAT]
    ELSE [ok |-> TRUE, sb |-> d.sb, directory |-> d.dir, FAT |-> d.fat]

-----------------------------------------------------------------------------
(* Lookup *)

\* the loop of findFreeBlocks from block i on, blocks being those found so far
RECURSIVE FreeScan(_, _, _, _, _)
FreeScan(i, count, blocks, sbv, fat) ==
    IF i < sbv.totalBlocks /\ Len(blocks) < count
    THEN FreeScan(i + 1, count,
                  IF fat[i] = FAT_FREE THEN Append(blocks, i) ELSE blocks,
                  sbv, fat)
    ELSE blocks

\* a search that takes the highest FREE blocks of the data region
findFreeBlocksLast(count, sbv, fat) ==
    LET free == {b \in sbv.dataStartBlock..(sbv.totalBlocks - 1) :
                     fat[b] = FAT_FREE}
        n    == Cardinality(free)
    IN  IF n < count THEN [ok |-> FALSE, blocks |-> <<>>]
        ELSE [ok |-> TRUE,
              blocks |-> [k \in 1..count |->
                  CHOOSE b \in free :
                      Cardinality({c \in free : c < b}) = n - count + k - 1]]

\* a search that takes the first count blocks of the data region, FREE or not
findFreeBlocksAny(count, sbv, fat) ==
    LET n == Min(count, sbv.totalBlocks - sbv.dataStartBlock)
    IN  [ok |-> n = count,
         blocks |-> [k \in 1..n |-> sbv.dataStartBlock + k - 1]]

findFreeBlocks(count, sbv, fat) ==
    LET blocks == FreeScan(sbv.dataStartBlock, count, <<>>, sbv, fat)
    IN  [ok |-> Len(blocks) = count, blocks |-> blocks]

\* index of the first active entry whose name equals name, -1 if there is none
RECURSIVE FindEntryFrom(_, _, _)
FindEntryFrom(i, name, dir) ==
    IF i >= MAX_FILES THEN -1
    ELSE IF dir[i].name[1] # 0 /\ StrEqC(name, dir[i].name) THEN i
    ELSE FindEntryFrom(i + 1, name, dir)

\* a lookup that skips slot 0
findDirectoryEntryFromOne(name, dir) == FindEntryFrom(1, name, dir)

findDirectoryEntry(name, dir) == FindEntryFrom(0, name, dir)

\* a slot search that answers the last slot when none is free
FreeSlotOrLast(i, dir) ==
    LET free == {k \in i..(MAX_FILES - 1) : dir[k].name[1] = 0}
    IN  IF free = {} THEN MAX_FILES - 1
        ELSE CHOOSE k \in free : \A j \in free : k <= j

\* a slot search that answers the highest free slot
FreeSlotHighest(i, dir) ==
    LET free == {k \in i..(MAX_FILES - 1) : dir[k].name[1] = 0}
    IN  IF free = {} THEN -1
        ELSE CHOOSE k \in free : \A j \in free : k >= j

\* the loop of copyFromHost looking for a free slot, -1 if there is none
RECURSIVE FreeSlotFrom(_, _)
FreeSlotFrom(i, dir) ==
    IF i >= MAX_FILES THEN -1
    ELSE IF dir[i].name[1] = 0 THEN i
    ELSE FreeSlotFrom(i + 1, dir)

-----------------------------------------------------------------------------
(* copyFromHost *)

\* a linking that leaves the entry of the last block as it was
LinkChainNoEnd(fat, blocks, i) ==
    [b \in DOMAIN fat |->
        IF \E k \in i..(Len(blocks) - 1) : blocks[k] = b
        THEN blocks[(CHOOSE k \in i..(Len(blocks) - 1) : blocks[k] = b) + 1]
        ELSE fat[b]]

\* a linking that points each block at the one found before it
LinkChainBackwards(fat, blocks, i) ==
    [b \in DOMAIN fat |->
        IF \E k \in i..Len(blocks) : blocks[k] = b
        THEN LET k == CHOOSE j \in i..Len(blocks) : blocks[j] = b
             IN  IF k = i THEN FAT_EOF ELSE blocks[k - 1]
        ELSE fat[b]]

\* the loop setting the FAT entries of the allocated blocks, from position i
RECURSIVE LinkChain(_, _, _)
LinkChain(fat, blocks, i) ==
    IF i > Len(blocks) THEN fat
    ELSE LinkChain([fat EXCEPT ![blocks[i]] =
                        IF i = Len(blocks) THEN FAT_EOF ELSE blocks[i + 1]],
                   blocks, i + 1)

\* the directory entry copyFromHost fills
NewEntry(fname, fileSize, now, first) ==
    [name |-> StrncpyName(fname), size |-> fileSize, created |-> now,
     type |-> TYPE_FILE, firstBlock |-> first]

\* a copyFromHost that fills the directory entry before it looks for blocks
copyFromHostEntryFirst(sbv, dir, fat, h, now) ==
    LET fname        == BareName(h.path)
        freeSlot     == FreeSlotFrom(0, dir)
        fileSize     == RunsLen(h.content)
        blocksNeeded == (fileSize + BLOCK_SIZE - 1) \div BLOCK_SIZE
        found        == findFreeBlocks(blocksNeeded, sbv, fat)
        Fail(e)      == [ret |-> FALSE, err |-> e, directory |-> dir,
                         FAT |-> fat, blocks |-> <<>>]
    IN  IF findDirectoryEntry(fname, dir) >= 0 THEN Fail("name-conflict")
        ELSE IF freeSlot < 0 THEN Fail("directory-full")
        ELSE IF ~h.readable THEN Fail("source-unreadable")
        ELSE IF fileSize <= 0 THEN Fail("source-empty")
        ELSE IF ~found.ok
        THEN [ret |-> FALSE, err |-> "insufficient-space",
              directory |-> [dir EXCEPT ![freeSlot] =
                  NewEntry(fname, fileSize, now, 0)],
              FAT |-> fat, blocks |-> <<>>]
        ELSE [ret |-> TRUE, err |-> "none",
              directory |-> [dir EXCEPT ![freeSlot] =
                  NewEntry(fname, fileSize, now, found.blocks[1])],
              FAT |-> LinkChain(fat, found.blocks, 1),
              blocks |-> found.blocks]

\* The part of copyFromHost before the first write to the disk: its checks
\* and its changes to the directory and the FAT in memory.
\* h is the host file: [path, readable, content].
copyFromHostPrepare(sbv, dir, fat, h, now) ==
    LET fname        == BareName(h.path)
        freeSlot     == FreeSlotFrom(0, dir)
        fileSize     == RunsLen(h.content)
        blocksNeeded == (fileSize + BLOCK_SIZE - 1) \div BLOCK_SIZE
        found        == findFreeBlocks(blocksNeeded, sbv, fat)
        Fail(e)      == [ret |-> FALSE, err |-> e, directory |-> dir,
                         FAT |-> fat, blocks |-> <<>>]
    IN  IF findDirectoryEntry(fname, dir) >= 0 THEN Fail("name-conflict")
        ELSE IF freeSlot < 0 THEN Fail("directory-full")
        ELSE IF ~h.readable THEN Fail("source-unreadable")
        ELSE IF fileSize <= 0 THEN Fail("source-empty")
        ELSE IF ~found.ok THEN Fail("insufficient-space")
        ELSE [ret |-> TRUE, err |-> "none",
              directory |-> [dir EXCEPT ![freeSlot] =
                  NewEntry(fname, fileSize, now, found.blocks[1])],
              FAT |-> LinkChain(fat, found.blocks, 1),
              blocks |-> found.blocks]

\* a pass that also marks the block used in the stored FAT
writeDataBlockMarking(d, blocks, content, i) ==
    LET blk         == blocks[i + 1]
        fileSize    == RunsLen(content)
        bytesToRead == Min(BLOCK_SIZE, fileSize - i * BLOCK_SIZE)
        chunk       == TakeBytes(DropBytes(content, i * BLOCK_SIZE), bytesToRead)
    IN  [d EXCEPT !.data[blk] = chunk \o Zeros(BLOCK_SIZE - bytesToRead),
                  !.fat[blk] = FAT_EOF]

\* one pass of the loop writing the data: block i (0-based) of the file
writeDataBlock(d, blocks, content, i) ==
    LET blk         == blocks[i + 1]
        fileSize    == RunsLen(content)
        bytesToRead == Min(BLOCK_SIZE, fileSize - i * BLOCK_SIZE)
        chunk       == TakeBytes(DropBytes(content, i * BLOCK_SIZE), bytesToRead)
    IN  [d EXCEPT !.data[blk] = chunk \o Zeros(BLOCK_SIZE - bytesToRead)]

\* the loop writing the data, from pass i on
RECURSIVE writeData(_, _, _, _)
writeData(d, blocks, content, i) ==
    IF i >= Len(blocks) THEN d
    ELSE writeData(writeDataBlock(d, blocks, content, i), blocks, content, i + 1)

-----------------------------------------------------------------------------
(* copyToHost *)

\* the loop of copyToHost: the bytes written to the host file
RECURSIVE ReadChain(_, _, _, _)
ReadChain(d, fat, blk, remaining) ==
    IF blk # FAT_EOF /\ remaining > 0
    THEN LET toRead == Min(BLOCK_SIZE, remaining)
         IN  TakeBytes(d.data[blk], toRead)
                 \o ReadChain(d, fat, IF blk < 0 THEN FAT_EOF ELSE fat[blk],
                              remaining - toRead)
    ELSE <<>>

copyToHost(d, dir, fat, fileName, writable) ==
    LET idx == findDirectoryEntry(fileName, dir)
    IN  IF idx < 0 THEN [ret |-> FALSE, err |-> "not-found", out |-> <<>>]
        ELSE IF ~writable
        THEN [ret |-> FALSE, err |-> "cannot-create", out |-> <<>>]
        ELSE [ret |-> TRUE, err |-> "none",
              out |-> ReadChain(d, fat, dir[idx].firstBlock, dir[idx].size)]

-----------------------------------------------------------------------------
(* deleteFile *)

\* a loop that frees the first block of the chain only
FreeChainFirstOnly(fat, blk) ==
    [ends |-> TRUE,
     FAT  |-> IF blk # FAT_EOF /\ blk # FAT_RESERVED
              THEN [fat EXCEPT ![blk] = FAT_FREE] ELSE fat]

\* The loop of deleteFile freeing the chain that starts at blk.  It tests blk,
\* not FAT[blk]: at block 0 with FAT[0] = FAT_FREE it reads 0 as the next
\* block for ever; ends tells whether the loop ends, FAT is the table it
\* leaves (or holds while it spins).
RECURSIVE FreeChain(_, _)
FreeChain(fat, blk) ==
    IF blk # FAT_EOF /\ blk # FAT_RESERVED
    THEN IF blk = 0 /\ fat[blk] = FAT_FREE
         THEN [ends |-> FALSE, FAT |-> fat]
         ELSE FreeChain([fat EXCEPT ![blk] = FAT_FREE], fat[blk])
    ELSE [ends |-> TRUE, FAT |-> fat]

\* a deleteFile that frees every block that is not RESERVED
deleteFileFreeAll(dir, fat, fileName) ==
    LET idx == FindEntryFrom(0, fileName, dir)
    IN  IF idx < 0
        THEN [ret |-> FALSE, err |-> "not-found", ends |-> TRUE,
              directory |-> dir, FAT |-> fat]
        ELSE [ret |-> TRUE, err |-> "none", ends |-> TRUE,
              directory |-> [dir EXCEPT ![idx].name[1] = 0,
                                        ![idx].size = 0,
                                        ![idx].firstBlock = 0],
              FAT |-> [b \in DOMAIN fat |->
                          IF fat[b] = FAT_RESERVED THEN FAT_RESERVED
                          ELSE FAT_FREE]]

\* the blocks whose entry a deleteFile turned to FAT_FREE
FreedBlocks(fat, freed) ==
    {b \in DOMAIN fat : fat[b] # FAT_FREE /\ freed[b] = FAT_FREE}

\* The part of deleteFile before the first write to the disk; ends is FALSE
\* when its loop never ends.
deleteFilePrepare(dir, fat, fileName) ==
    LET idx == findDirectoryEntry(fileName, dir)
    IN  IF idx < 0
        THEN [ret |-> FALSE, err |-> "not-found", ends |-> TRUE,
              directory |-> dir, FAT |-> fat]
        ELSE LET freed == FreeChain(fat, dir[idx].firstBlock)
             IN  [ret |-> TRUE, err |-> "none", ends |-> freed.ends,
                  directory |-> [dir EXCEPT ![idx].name[1] = 0,
                                            ![idx].size = 0,
                                            ![idx].firstBlock = 0],
                  FAT |-> freed.FAT]

-----------------------------------------------------------------------------
(* showMap *)

\* the loop of describe_block following the chain from blk in search of i
RECURSIVE ChainHas(_, _, _)
ChainHas(fat, blk, i) ==
    IF blk # FAT_EOF /\ blk >= 0
    THEN IF blk = i THEN TRUE ELSE ChainHas(fat, fat[blk], i)
    ELSE FALSE

\* the loop of describe_block over the directory, from entry k on: the name
\* of the first active entry whose chain holds block i, <<>> if there is none
RECURSIVE OwnerFrom(_, _, _, _)
OwnerFrom(k, dir, fat, i) ==
    IF k >= MAX_FILES THEN <<>>
    ELSE IF dir[k].name[1] # 0 /\ ChainHas(fat, dir[k].firstBlock, i)
    THEN CStr(dir[k].name)
    ELSE OwnerFrom(k + 1, dir, fat, i)

BlockClass(type, name, status) ==
    [type |-> type, name |-> name, status |-> status]

\* the (type, status) pair of block i; a file's type is "File(" name ")"
describe_block(sbv, dir, fat, i) ==
    IF i = 0 THEN BlockClass("Superblock", <<>>, "occupied")
    ELSE IF i >= sbv.dirStartBlock /\ i < sbv.dirStartBlock + sbv.dirBlockCount
    THEN BlockClass("Directory", <<>>, "occupied")
    ELSE IF i >= sbv.fatStartBlock /\ i < sbv.fatStartBlock + sbv.fatBlockCount
    THEN BlockClass("FAT", <<>>, "occupied")
    ELSE IF fat[i] = FAT_FREE THEN BlockClass("Free", <<>>, "free")
    ELSE LET fname == OwnerFrom(0, dir, fat, i)
         IN  IF fname # <<>> THEN BlockClass("File", fname, "occupied")
             ELSE BlockClass("Unknown", <<>>, "occupied")

MapRange(start, end, class) == [start |-> start, end |-> end, class |-> class]

\* a map that prints one range for every block
showMapPerBlock(sbv, dir, fat) ==
    [k \in 1..sbv.totalBlocks |->
        MapRange(k - 1, k - 1, describe_block(sbv, dir, fat, k - 1))]

\* the loop of showMap from block i on: start and curr are the running range
\* and its class, out the lines printed so far; the last range is printed
\* after the loop
RECURSIVE MapFrom(_, _, _, _, _, _, _)
MapFrom(i, start, curr, out, sbv, dir, fat) ==
    IF i < sbv.totalBlocks
    THEN LET class == describe_block(sbv, dir, fat, i)
         IN  IF class.type # curr.type \/ class.name # curr.name
                    \/ class.status # curr.status
             THEN MapFrom(i + 1, i, class,
                          Append(out, MapRange(start, i - 1, curr)),
                          sbv, dir, fat)
             ELSE MapFrom(i + 1, start, curr, out, sbv, dir, fat)
    ELSE Append(out, MapRange(start, sbv.totalBlocks - 1, curr))

\* the lines showMap prints, as ranges
showMap(sbv, dir, fat) ==
    MapFrom(1, 0, describe_block(sbv, dir, fat, 0), <<>>, sbv, dir, fat)

-----------------------------------------------------------------------------
(* The environment: host files, disk sizes, names asked for *)

\* the bytes of a host file: the first len bytes of the pattern of a seed
Content(seed, len) == IF len > 0 THEN <<Run(seed, 0, len)>> ELSE <<>>

\* a bare name longer than the name field holds
LongName == Rep(120, MaxNameLen - 1) \o <<112>>

HostFile(path, readable, content) ==
    [path |-> path, readable |-> readable, content |-> content]

HostFiles ==
    { HostFile(<<97>>, TRUE, Content(1, 1)),                      \* a
      HostFile(<<100, 47, 98>>, TRUE, Content(2, BLOCK_SIZE)),    \* d/b
      HostFile(<<101, 92, 99>>, TRUE, Content(3, 2 * BLOCK_SIZE + 1)), \* e\c
      HostFile(<<103>>, TRUE, <<>>),                              \* g, empty
      HostFile(<<104>>, FALSE, <<>>),                             \* h, unreadable
      HostFile(LongName, TRUE, Content(4, BLOCK_SIZE + 88)) }

\* the file names given to dget and ddel: the bare names of the host files
\* (g is never on the disk) and the long name as the name field holds it
FileNames ==
    {BareName(h.path) : h \in {f \in HostFiles : f.readable}}
        \cup {CStr(StrncpyName(LongName))}

\* the sizes given to dmake: one it accepts and one it refuses
DiskSizes == {MIN_DISK_SIZE, MIN_DISK_SIZE - 1}

\* time(nullptr)
Times == {1}

-----------------------------------------------------------------------------
(* State *)

NoCtx == [op |-> "none", blocks |-> <<>>, content |-> <<>>, i |-> 0,
          name |-> <<>>, preDir |-> <<>>, preFat |-> <<>>]

\* blocks is set by ddel and dput only, see Ddel and Dput; size is the disk
\* size a createDisk was called with, see Format
Result(op, ret, err, name, content) ==
    [op |-> op, ret |-> ret, err |-> err, name |-> name, content |-> content,
     blocks |-> {}, size |-> 0]

Init ==
    /\ disk = NoDisk
    /\ sb = ZeroSB
    /\ directory = EmptyDirectory
    /\ FAT = EmptyFAT
    /\ hostOut = <<>>
    /\ last = Result("none", TRUE, "none", <<>>, <<>>)
    /\ pc = "idle"
    /\ ctx = NoCtx
    /\ deleted = 0

-----------------------------------------------------------------------------
(* The commands of main.cpp, each run to its end.  A value computed once  *)
(* and used several times is bound by \E over a singleton set.            *)

\* the container after ofstream(trunc), seekp(diskSize - 1) and one zero byte
BlankDisk(size) ==
    LET total == size \div BLOCK_SIZE
    IN  [exists |-> TRUE, len |-> size, sb |-> ZeroSB, dir |-> EmptyDirectory,
         fat |-> [i \in 0..(total - 1) |-> 0],
         data |-> [i \in 0..(total - 1) |-> ZeroBlock]]

\* createDisk on a fresh handle: the container and the handle it leaves
createDisk(diskSize) ==
    LET size == RoundedSize(diskSize)
        sbv  == NewSuperBlock(size)
        fat  == NewFAT(sbv)
    IN  [disk |-> writeFAT(writeDirectory(writeSuperblock(BlankDisk(size), sbv),
                                          sbv, EmptyDirectory), sbv, fat),
         sb |-> sbv, directory |-> EmptyDirectory, FAT |-> fat]

Dmake(diskSize, creatable) ==
    /\ pc = "idle"
    /\ hostOut' = <<>> /\ UNCHANGED <<pc, ctx>>
    /\ IF diskSize < MIN_DISK_SIZE \/ diskSize > MAX_DISK_SIZE
       THEN /\ last' = Result("dmake", FALSE, "bad-size", <<>>, <<>>)
            /\ UNCHANGED <<disk, sb, directory, FAT, deleted>>
       ELSE IF ~creatable
       THEN /\ last' = Result("dmake", FALSE, "cannot-create", <<>>, <<>>)
            /\ sb' = ZeroSB /\ directory' = EmptyDirectory /\ FAT' = EmptyFAT
            /\ UNCHANGED <<disk, deleted>>
       ELSE \E c \in {createDisk(diskSize)} :
                /\ MetadataFits(c.sb)
                /\ disk' = c.disk
                /\ sb' = c.sb
                /\ directory' = c.directory
                /\ FAT' = c.FAT
                /\ last' = Result("dmake", TRUE, "none", <<>>, <<>>)
                /\ deleted' = 0

Dremove ==
    /\ pc = "idle"
    /\ hostOut' = <<>> /\ UNCHANGED <<pc, ctx>>
    /\ sb' = ZeroSB /\ directory' = EmptyDirectory /\ FAT' = EmptyFAT
    /\ IF disk.exists
       THEN /\ disk' = NoDisk
            /\ deleted' = 0
            /\ last' = Result("dremove", TRUE, "none", <<>>, <<>>)
       ELSE /\ UNCHANGED <<disk, deleted>>
            /\ last' = Result("dremove", FALSE, "cannot-delete", <<>>, <<>>)

\* a command whose loadDisk fails
LoadFailed(op, L) ==
    /\ sb' = L.sb /\ directory' = L.directory /\ FAT' = L.FAT
    /\ last' = Result(op, FALSE, "load-failed", <<>>, <<>>)
    /\ hostOut' = <<>> /\ UNCHANGED <<disk, pc, ctx, deleted>>

\* the command that ran last deleted a file of this name
JustDeleted(fileName) ==
    last.op = "ddel" /\ last.ret /\ last.name = fileName

Dput(h, now) ==
    /\ pc = "idle"
    /\ \E L \in {loadDisk(disk)} :
           IF ~L.ok THEN LoadFailed("dput", L)
           ELSE \E r \in {copyFromHostPrepare(L.sb, L.directory, L.FAT, h, now)} :
                    /\ sb' = L.sb
                    /\ directory' = r.directory
                    /\ FAT' = r.FAT
                    /\ disk' = IF r.ret
                               THEN writeFAT(
                                      writeDirectory(
                                        writeData(disk, r.blocks, h.content, 0),
                                        L.sb, r.directory),
                                      L.sb, r.FAT)
                               ELSE disk
                    /\ last' = [Result("dput", r.ret, r.err, BareName(h.path),
                                        IF r.ret THEN h.content ELSE <<>>)
                                 EXCEPT !.blocks =
                                     IF JustDeleted(BareName(h.path))
                                     THEN last.blocks ELSE {}]
                    /\ hostOut' = <<>> /\ UNCHANGED <<pc, ctx, deleted>>

\* the command that ran last imported a file of this name
JustImported(fileName) ==
    last.op = "dput" /\ last.ret /\ last.name = fileName

Dget(fileName, writable) ==
    /\ pc = "idle"
    /\ \E L \in {loadDisk(disk)} :
           IF ~L.ok THEN LoadFailed("dget", L)
           ELSE \E r \in {copyToHost(disk, L.directory, L.FAT, fileName, writable)} :
                    /\ sb' = L.sb
                    /\ directory' = L.directory
                    /\ FAT' = L.FAT
                    /\ hostOut' = IF r.ret THEN r.out ELSE <<>>
                    /\ last' = Result("dget", r.ret, r.err,
                                      IF r.ret \/ JustImported(fileName)
                                      THEN fileName ELSE <<>>, <<>>)
                    /\ UNCHANGED <<disk, pc, ctx, deleted>>

Ddel(fileName) ==
    /\ pc = "idle"
    /\ deleted < MaxDeleted
    /\ \E L \in {loadDisk(disk)} :
           IF ~L.ok THEN LoadFailed("ddel", L)
           ELSE \E r \in {deleteFilePrepare(L.directory, L.FAT, fileName)} :
                    /\ r.ends     \* a loop that never ends returns nothing
                    /\ sb' = L.sb
                    /\ directory' = r.directory
                    /\ FAT' = r.FAT
                    /\ disk' = IF r.ret
                               THEN writeFAT(writeDirectory(disk, L.sb, r.directory),
                                             L.sb, r.FAT)
                               ELSE disk
                    /\ last' = [Result("ddel", r.ret, r.err,
                                        IF r.ret THEN fileName ELSE <<>>, <<>>)
                                 EXCEPT !.blocks = FreedBlocks(L.FAT, r.FAT)]
                    /\ deleted' = IF r.ret THEN deleted + 1 ELSE deleted
                    /\ hostOut' = <<>> /\ UNCHANGED <<pc, ctx>>

\* dls: listFiles prints the directory and changes nothing
Dls ==
    /\ pc = "idle"
    /\ \E L \in {loadDisk(disk)} :
           IF ~L.ok THEN LoadFailed("dls", L)
           ELSE /\ sb' = L.sb
                /\ directory' = L.directory
                /\ FAT' = L.FAT
                /\ last' = Result("dls", TRUE, "none", <<>>, <<>>)
                /\ hostOut' = <<>> /\ UNCHANGED <<disk, pc, ctx, deleted>>

\* dmap: hostOut holds the ranges showMap prints
Dmap ==
    /\ pc = "idle"
    /\ \E L \in {loadDisk(disk)} :
           IF ~L.ok THEN LoadFailed("dmap", L)
           ELSE /\ sb' = L.sb
                /\ directory' = L.directory
                /\ FAT' = L.FAT
                /\ last' = Result("dmap", TRUE, "none", <<>>, <<>>)
                /\ hostOut' = showMap(L.sb, L.directory, L.FAT)
                /\ UNCHANGED <<disk, pc, ctx, deleted>>

Next ==
    \/ \E s \in DiskSizes, creatable \in BOOLEAN : Dmake(s, creatable)
    \/ Dremove
    \/ \E h \in HostFiles, now \in Times : Dput(h, now)
    \/ \E n \in FileNames, writable \in BOOLEAN : Dget(n, writable)
    \/ \E n \in FileNames : Ddel(n)
    \/ Dls
    \/ Dmap

Spec == Init /\ [][Next]_vars

-----------------------------------------------------------------------------
(* createDisk called with any uint32_t size, with the directory of         *)
(* DECLARED_MAX_FILES entries the header declares.                         *)

FormatSizes ==
    {0, 1000} \cup {MIN_DISK_SIZE + k * FormatStride : k \in 0..MaxFormatSteps}

\* When dataStartBlock > totalBlocks the loop of createDisk writes FAT[i]
\* past the end of the vector, which is undefined: the write goes unnoticed
\* and createDisk goes on, or the process is killed at that point.
Overruns == {"unnoticed", "killed"}

\* createDisk on a fresh handle with a directory of n entries; ret is FALSE
\* when the process is killed
createDiskOf(n, diskSize, overrun) ==
    LET size == RoundedSize(diskSize)
        sbv  == SuperBlockOf(n, size)
        dir  == [i \in 0..(n - 1) |-> ZeroEntry]
        fat  == NewFAT(sbv)
        d    == writeDirectory(writeSuperblock(BlankDisk(size), sbv), sbv, dir)
    IN  IF MetadataFits(sbv) \/ overrun = "unnoticed"
        THEN [ret |-> TRUE, disk |-> writeFAT(d, sbv, fat),
              sb |-> sbv, directory |-> dir, FAT |-> fat]
        ELSE [ret |-> FALSE, disk |-> d,
              sb |-> ZeroSB, directory |-> EmptyDirectory, FAT |-> EmptyFAT]

Format(diskSize, overrun) ==
    /\ pc = "idle"
    /\ ~disk.exists
    /\ \E c \in {createDiskOf(DECLARED_MAX_FILES, diskSize, overrun)} :
           /\ disk' = c.disk
           /\ sb' = c.sb
           /\ directory' = c.directory
           /\ FAT' = c.FAT
           /\ last' = [Result("format", c.ret,
                               IF c.ret THEN "none" ELSE "killed", <<>>, <<>>)
                        EXCEPT !.size = diskSize]
    /\ hostOut' = <<>> /\ deleted' = 0 /\ UNCHANGED <<pc, ctx>>

NextFormat ==
    \/ \E s \in FormatSizes, o \in Overruns : Format(s, o)
    \/ Dremove

SpecFormat == Init /\ [][NextFormat]_vars

-----------------------------------------------------------------------------
(* Loading a container whose first 8 bytes are not those createDisk wrote: *)
(* a disk made by dmake in which one byte of the magic field was changed.  *)

\* the values a byte of the magic field is changed to
MagicBytes == {0, 1, 48, 49, 84, 255}

Magics ==
    {[FS_NAME EXCEPT ![k] = v] : k \in 1..Len(FS_NAME), v \in MagicBytes}

InitLoad ==
    /\ \E m \in Magics :
           disk = [createDisk(MIN_DISK_SIZE).disk EXCEPT !.sb.fsName = m]
    /\ sb = ZeroSB
    /\ directory = EmptyDirectory
    /\ FAT = EmptyFAT
    /\ hostOut = <<>>
    /\ last = Result("none", TRUE, "none", <<>>, <<>>)
    /\ pc = "idle"
    /\ ctx = NoCtx
    /\ deleted = 0

NextLoad ==
    \/ Dls
    \/ Dmap

SpecLoad == InitLoad /\ [][NextLoad]_vars

-----------------------------------------------------------------------------
(* The same commands step by step: copyFromHost and deleteFile issue their *)
(* writes to the container one after the other, and the process may be     *)
(* stopped between any two of them.  pc is the place reached, ctx holds    *)
(* the locals of the operation and the directory and FAT it loaded.        *)

\* the host files of the stepwise commands: a, e\c and the empty g
CrashFiles == {h \in HostFiles : BareName(h.path) \in {<<97>>, <<99>>, <<103>>}}

CrashNames == {BareName(h.path) : h \in CrashFiles}

\* copyFromHost up to the loop writing the data
PutBegin(h, now) ==
    /\ pc = "idle"
    /\ \E L \in {loadDisk(disk)} :
           IF ~L.ok THEN LoadFailed("dput", L)
           ELSE \E r \in {copyFromHostPrepare(L.sb, L.directory, L.FAT, h, now)} :
                    /\ sb' = L.sb
                    /\ directory' = r.directory
                    /\ FAT' = r.FAT
                    /\ hostOut' = <<>> /\ UNCHANGED <<disk, deleted>>
                    /\ IF r.ret
                       THEN /\ pc' = "put-data"
                            /\ ctx' = [op |-> "dput", blocks |-> r.blocks,
                                       content |-> h.content, i |-> 0,
                                       name |-> BareName(h.path),
                                       preDir |-> L.directory,
                                       preFat |-> L.FAT]
                            /\ UNCHANGED last
                       ELSE /\ last' = Result("dput", FALSE, r.err,
                                              BareName(h.path), <<>>)
                            /\ UNCHANGED <<pc, ctx>>

\* one pass of the loop writing the data
PutData ==
    /\ pc = "put-data"
    /\ ctx.i < Len(ctx.blocks)
    /\ disk' = writeDataBlock(disk, ctx.blocks, ctx.content, ctx.i)
    /\ ctx' = [ctx EXCEPT !.i = @ + 1]
    /\ UNCHANGED <<sb, directory, FAT, hostOut, last, pc, deleted>>

\* writeDirectory() of copyFromHost
PutDir ==
    /\ pc = "put-data"
    /\ ctx.i >= Len(ctx.blocks)
    /\ disk' = writeDirectory(disk, sb, directory)
    /\ pc' = "put-fat"
    /\ UNCHANGED <<sb, directory, FAT, hostOut, last, ctx, deleted>>

\* writeFAT() of copyFromHost, and its return
PutFat ==
    /\ pc = "put-fat"
    /\ disk' = writeFAT(disk, sb, FAT)
    /\ pc' = "idle"
    /\ ctx' = NoCtx
    /\ last' = Result("dput", TRUE, "none", ctx.name, ctx.content)
    /\ UNCHANGED <<sb, directory, FAT, hostOut, deleted>>

\* deleteFile up to its first write; at del-loop its loop never ends
DelBegin(fileName) ==
    /\ pc = "idle"
    /\ deleted < MaxDeleted
    /\ \E L \in {loadDisk(disk)} :
           IF ~L.ok THEN LoadFailed("ddel", L)
           ELSE \E r \in {deleteFilePrepare(L.directory, L.FAT, fileName)} :
                    /\ sb' = L.sb
                    /\ directory' = r.directory
                    /\ FAT' = r.FAT
                    /\ hostOut' = <<>> /\ UNCHANGED disk
                    /\ IF r.ret
                       THEN /\ pc' = IF r.ends THEN "del-dir" ELSE "del-loop"
                            /\ ctx' = [NoCtx EXCEPT !.op = "ddel",
                                                    !.name = fileName,
                                                    !.preDir = L.directory,
                                                    !.preFat = L.FAT]
                            /\ deleted' = deleted + 1
                            /\ UNCHANGED last
                       ELSE /\ last' = Result("ddel", FALSE, r.err, <<>>, <<>>)
                            /\ UNCHANGED <<pc, ctx, deleted>>

\* writeDirectory() of deleteFile
DelDir ==
    /\ pc = "del-dir"
    /\ disk' = writeDirectory(disk, sb, directory)
    /\ pc' = "del-fat"
    /\ UNCHANGED <<sb, directory, FAT, hostOut, last, ctx, deleted>>

\* writeFAT() of deleteFile, and its return
DelFat ==
    /\ pc = "del-fat"
    /\ disk' = writeFAT(disk, sb, FAT)
    /\ pc' = "idle"
    /\ ctx' = NoCtx
    /\ last' = Result("ddel", TRUE, "none", ctx.name, <<>>)
    /\ UNCHANGED <<sb, directory, FAT, hostOut, deleted>>

\* the process is stopped inside an operation: the handle is gone, the
\* container keeps what was written
Interrupt ==
    /\ pc # "idle"
    /\ pc' = "idle"
    /\ ctx' = NoCtx
    /\ sb' = ZeroSB /\ directory' = EmptyDirectory /\ FAT' = EmptyFAT
    /\ last' = Result(ctx.op, FALSE, "interrupted", ctx.name, <<>>)
    /\ UNCHANGED <<disk, hostOut, deleted>>

NextCrash ==
    \/ \E s \in DiskSizes, creatable \in BOOLEAN : Dmake(s, creatable)
    \/ \E h \in CrashFiles, now \in Times : PutBegin(h, now)
    \/ PutData
    \/ PutDir
    \/ PutFat
    \/ \E n \in CrashNames : DelBegin(n)
    \/ DelDir
    \/ DelFat
    \/ Interrupt

SpecCrash == Init /\ [][NextCrash]_vars

-----------------------------------------------------------------------------
(* Notions the properties are stated with *)

\* ceil(size / BLOCK_SIZE)
CeilBlocks(size) == (size + BLOCK_SIZE - 1) \div BLOCK_SIZE

ActiveSlots(dir) == {i \in DOMAIN dir : dir[i].name[1] # 0}

\* the blocks visited from blk by following FAT pointers, at most fuel of them
RECURSIVE Walk(_, _, _)
Walk(fat, blk, fuel) ==
    IF fuel = 0 \/ blk \notin DOMAIN fat THEN <<>>
    ELSE <<blk>> \o Walk(fat, fat[blk], fuel - 1)

\* the chain of directory entry i
ChainOf(dir, fat, i) == Walk(fat, dir[i].firstBlock, Cardinality(DOMAIN fat) + 1)

Range(seq) == {seq[k] : k \in DOMAIN seq}

RECURSIVE SumOver(_, _)
SumOver(f, S) ==
    IF S = {} THEN 0
    ELSE LET x == CHOOSE y \in S : TRUE IN f[x] + SumOver(f, S \ {x})

CountOf(fat, v) == Cardinality({b \in DOMAIN fat : fat[b] = v})

FreeDataBlocks(sbv, fat) ==
    {b \in DOMAIN fat : b >= sbv.dataStartBlock /\ fat[b] = FAT_FREE}

\* the host file of a bare name
HostByName(n) == CHOOSE h \in HostFiles : BareName(h.path) = n

\* a command that ran an operation on a loaded or newly made disk
Ran(op) == last.op = op /\ last.err \notin {"load-failed", "bad-size", "cannot-create"}

-----------------------------------------------------------------------------
(* Properties of the commands run to their end (Spec) *)

Conserved(sbv, dir, fat) ==
    CountOf(fat, FAT_FREE)
        + SumOver([i \in ActiveSlots(dir) |-> Len(ChainOf(dir, fat, i))],
                  ActiveSlots(dir))
        + CountOf(fat, FAT_RESERVED)
    = sbv.totalBlocks

\* C1: in every state reached by createDisk and any sequence of copyFromHost
\* and deleteFile calls, successful or not, the number of FREE entries plus the
\* chain lengths of the active entries plus the number of RESERVED entries is
\* totalBlocks, in the handle and in the container.
C1_Conservation ==
    disk.exists =>
        /\ Conserved(disk.sb, disk.dir, disk.fat)
        /\ (Ran("dmake") \/ Ran("dput") \/ Ran("ddel"))
               => Conserved(sb, directory, FAT)

C1_Witness ==
    /\ Ran("dput") /\ ~last.ret /\ last.err = "insufficient-space"
    /\ deleted > 0
    /\ \E i \in ActiveSlots(directory) : Len(ChainOf(directory, FAT, i)) = 3
    /\ CountOf(FAT, FAT_FREE) > 0

WellChained(dir, fat) ==
    \A i \in ActiveSlots(dir) :
        LET chain == ChainOf(dir, fat, i)
        IN  /\ Len(chain) = CeilBlocks(dir[i].size)
            /\ Cardinality(Range(chain)) = Len(chain)
            /\ Len(chain) > 0
            /\ fat[chain[Len(chain)]] = FAT_EOF
            /\ \A k \in 1..Len(chain) :
                   fat[chain[k]] \notin {FAT_FREE, FAT_RESERVED}

\* C2: for every active directory entry, following the FAT from firstBlock
\* visits exactly ceil(size / BLOCK_SIZE) pairwise distinct blocks, none of
\* them FREE or RESERVED, and the entry of the last one is FAT_EOF.
C2_NoDanglingChains ==
    disk.exists =>
        /\ WellChained(disk.dir, disk.fat)
        /\ (Ran("dmake") \/ Ran("dput") \/ Ran("ddel"))
               => WellChained(directory, FAT)

\* a file of three blocks whose chain is not contiguous, after a deletion
C2_Witness ==
    /\ Ran("dput") /\ last.ret /\ deleted > 0
    /\ \E i \in ActiveSlots(directory) :
           LET chain == ChainOf(directory, FAT, i)
           IN  Len(chain) = 3 /\ chain[2] # chain[1] + 1

Exclusive(dir, fat) ==
    \A i, j \in ActiveSlots(dir) :
        i # j => Range(ChainOf(dir, fat, i)) \cap Range(ChainOf(dir, fat, j)) = {}

\* C3: no block is in the chains of two different active directory entries.
C3_ExclusiveOwnership ==
    disk.exists =>
        /\ Exclusive(disk.dir, disk.fat)
        /\ (Ran("dmake") \/ Ran("dput") \/ Ran("ddel"))
               => Exclusive(directory, FAT)

\* three active files, one of them imported into blocks a deletion freed
C3_Witness ==
    /\ Ran("dput") /\ last.ret /\ deleted > 0
    /\ Cardinality(ActiveSlots(directory)) = MAX_FILES

\* C4: a successful copyFromHost of L > 0 bytes followed by copyToHost of the
\* same file name (into a host file that can be created) succeeds and writes
\* exactly the L bytes imported, in order and with no padding.
C4_RoundTrip ==
    [][(/\ last.op = "dput" /\ last.ret
        /\ last'.op = "dget" /\ last'.name = last.name
        /\ last'.err # "cannot-create")
       => /\ last'.ret
          /\ RunsLen(hostOut') = RunsLen(last.content)
          /\ Bytes(hostOut') = Bytes(last.content)]_vars

\* C5: whenever createDisk, copyFromHost or deleteFile returns, the directory
\* and the FAT stored in the container equal those of the handle, and a
\* fresh loadDisk on the container yields that directory and that FAT.
C5_PersistedEqualsInMemory ==
    (disk.exists /\ (Ran("dmake") \/ Ran("dput") \/ Ran("ddel")))
        => /\ disk.dir = directory
           /\ disk.fat = FAT
           /\ loadDisk(disk).ok
           /\ loadDisk(disk).directory = directory
           /\ loadDisk(disk).FAT = FAT

\* after a deletion that left another file on the disk
C5_Witness ==
    /\ Ran("ddel") /\ last.ret
    /\ ActiveSlots(directory) # {}
    /\ CountOf(FAT, FAT_FREE) > 0
    /\ disk.fat = FAT

\* what copyFromHost requires of the disk and of the host file named n
NoConflict(dir, n) == \A i \in ActiveSlots(dir) : CStr(dir[i].name) # n
SlotFree(dir) == ActiveSlots(dir) # DOMAIN dir
SourceNonEmpty(h) == h.readable /\ RunsLen(h.content) > 0
EnoughFree(sbv, fat, h) ==
    Cardinality(FreeDataBlocks(sbv, fat)) >= CeilBlocks(RunsLen(h.content))

\* C8: copyFromHost succeeds exactly when no active entry has the bare name,
\* a directory slot is free, the source has more than 0 bytes and the data
\* region has at least ceil(size / BLOCK_SIZE) FREE blocks; each kind of
\* failure is returned only when its condition fails.
C8_SuccessConditions ==
    [][(last'.op = "dput" /\ loadDisk(disk).ok)
       => LET h == HostByName(last'.name)
          IN  /\ last'.ret <=> /\ NoConflict(disk.dir, last'.name)
                               /\ SlotFree(disk.dir)
                               /\ SourceNonEmpty(h)
                               /\ EnoughFree(disk.sb, disk.fat, h)
              /\ last'.err = "name-conflict"
                     => ~NoConflict(disk.dir, last'.name)
              /\ last'.err = "directory-full" => ~SlotFree(disk.dir)
              /\ last'.err \in {"source-empty", "source-unreadable"}
                     => ~SourceNonEmpty(h)
              /\ last'.err = "insufficient-space"
                     => ~EnoughFree(disk.sb, disk.fat, h)
              /\ ~last'.ret => last'.err # "none"]_vars

\* refused for want of blocks although a slot and some blocks are free
C8_Witness ==
    /\ Ran("dput") /\ ~last.ret /\ last.err = "insufficient-space"
    /\ SlotFree(directory)
    /\ NoConflict(directory, last.name)
    /\ FreeDataBlocks(sb, FAT) # {}

OpErrors ==
    {"name-conflict", "directory-full", "source-empty", "source-unreadable",
     "insufficient-space", "not-found", "cannot-create"}

\* C9: a copyFromHost, copyToHost or deleteFile that returns failure leaves
\* the container (directory, FAT and data blocks) as it was, and the
\* directory and the FAT of the handle as loadDisk read them.
C9_StateUnchangedOnError ==
    [][(/\ last'.op \in {"dput", "dget", "ddel"}
        /\ ~last'.ret /\ last'.err \in OpErrors)
       => /\ disk' = disk
          /\ directory' = disk.dir
          /\ FAT' = disk.fat]_vars

\* a failed deletion on a disk that holds files
C9_Witness ==
    /\ last.op = "ddel" /\ ~last.ret /\ last.err = "not-found"
    /\ ActiveSlots(disk.dir) # {}
    /\ directory = disk.dir /\ FAT = disk.fat

DistinctNames(dir) ==
    \A i, j \in ActiveSlots(dir) : i # j => CStr(dir[i].name) # CStr(dir[j].name)

DirectoryFull(dir) == ActiveSlots(dir) = DOMAIN dir /\ DistinctNames(dir)

\* C10: when MAX_FILES files of pairwise distinct names are active and FREE
\* data blocks remain, a copyFromHost of a new name fails with directory-full
\* and leaves every directory entry and the FAT, stored and in the handle,
\* as they were.
C10_DirectoryCapacity ==
    [][(/\ loadDisk(disk).ok
        /\ DirectoryFull(disk.dir)
        /\ FreeDataBlocks(disk.sb, disk.fat) # {}
        /\ last'.op = "dput"
        /\ NoConflict(disk.dir, last'.name))
       => /\ ~last'.ret /\ last'.err = "directory-full"
          /\ disk'.dir = disk.dir /\ disk'.fat = disk.fat
          /\ directory' = disk.dir /\ FAT' = disk.fat]_vars

C10_Witness ==
    /\ last.op = "dput" /\ ~last.ret /\ last.err = "directory-full"
    /\ DirectoryFull(disk.dir)
    /\ FreeDataBlocks(disk.sb, disk.fat) # {}
    /\ NoConflict(disk.dir, last.name)

\* C11: after any sequence of createDisk, copyFromHost and deleteFile, with
\* host file names of any length that copyFromHost accepts, no two active
\* directory entries have the same stored name.
C11_NameUniqueness ==
    disk.exists => DistinctNames(disk.dir) /\ DistinctNames(directory)

\* the slot deleteFile(n) clears: the first active one whose stored name is n
SlotOf(dir, n) ==
    CHOOSE i \in ActiveSlots(dir) :
        /\ CStr(dir[i].name) = n
        /\ \A j \in ActiveSlots(dir) : CStr(dir[j].name) = n => i <= j

\* C12: a successful deleteFile(name) sets to FREE exactly the FAT entries of
\* the blocks of that file's chain, makes the file's slot free (empty name,
\* size 0, firstBlock 0) and leaves every other FAT entry and every other
\* directory entry as it was, in the handle and in the container.
C12_DeleteEffectAndFrame ==
    [][(last'.op = "ddel" /\ last'.ret)
       => /\ \E i \in ActiveSlots(disk.dir) : CStr(disk.dir[i].name) = last'.name
          /\ LET idx   == SlotOf(disk.dir, last'.name)
                 chain == Range(ChainOf(disk.dir, disk.fat, idx))
             IN  /\ \A b \in DOMAIN disk.fat :
                        FAT'[b] = IF b \in chain THEN FAT_FREE ELSE disk.fat[b]
                 /\ DOMAIN FAT' = DOMAIN disk.fat
                 /\ CStr(directory'[idx].name) = <<>>
                 /\ directory'[idx].size = 0
                 /\ directory'[idx].firstBlock = 0
                 /\ \A j \in DOMAIN disk.dir :
                        j # idx => directory'[j] = disk.dir[j]
                 /\ disk'.fat = FAT'
                 /\ disk'.dir = directory']_vars

\* a deletion that left two other files on the disk
C12_Witness ==
    /\ Ran("ddel") /\ last.ret
    /\ Cardinality(ActiveSlots(disk.dir)) = MAX_FILES - 1
    /\ \E i \in ActiveSlots(disk.dir) : Len(ChainOf(disk.dir, disk.fat, i)) > 1
    /\ FreeDataBlocks(disk.sb, disk.fat) # {}

\* a dput of the name and the size of the file the command before deleted
Reimport ==
    /\ last.op = "ddel" /\ last.ret
    /\ last'.op = "dput" /\ last'.name = last.name
    /\ CeilBlocks(RunsLen(HostByName(last'.name).content))
           = Cardinality(last.blocks)

NewChain == Range(ChainOf(directory', FAT', SlotOf(directory', last'.name)))

\* C15 as the specification states it: deleteFile(f) followed by copyFromHost
\* of a file of the same name and size succeeds, and every block of the new
\* chain is a block the delete freed.
C15_ReusesFreedBlocks ==
    [][Reimport => (last'.ret /\ NewChain \subseteq last.blocks)]_vars

\* C15: deleteFile(f) followed by copyFromHost of a file of the same name and
\* size succeeds; the new chain has as many blocks as the delete freed and
\* is made of the lowest FREE blocks of the data region, whether the delete
\* freed them or they were FREE before it.
C15_DeleteThenImport ==
    [][Reimport
       => /\ last'.ret
          /\ Cardinality(NewChain) = Cardinality(last.blocks)
          /\ NewChain \subseteq FreeDataBlocks(disk.sb, disk.fat)
          /\ \A b \in NewChain :
                 \A c \in FreeDataBlocks(disk.sb, disk.fat) \ NewChain : b < c
          /\ disk'.fat = FAT' /\ disk'.dir = directory']_vars

\* a reimport that took a block an earlier deletion had freed
C15_Witness ==
    /\ Ran("dput") /\ last.ret /\ last.blocks # {}
    /\ \E i \in ActiveSlots(disk.dir) :
           /\ CStr(disk.dir[i].name) = last.name
           /\ ~(Range(ChainOf(disk.dir, disk.fat, i)) \subseteq last.blocks)

ReservedRegion(sbv, dir, fat) ==
    /\ \A b \in DOMAIN fat : fat[b] = FAT_RESERVED <=> b < sbv.dataStartBlock
    /\ \A i \in ActiveSlots(dir) :
           \A b \in Range(ChainOf(dir, fat, i)) :
               sbv.dataStartBlock <= b /\ b < sbv.totalBlocks

\* C14: after createDisk and any sequence of copyFromHost and deleteFile run
\* to their end, a FAT entry is RESERVED exactly when its block index is
\* below dataStartBlock, and every block of an active file's chain lies in
\* [dataStartBlock, totalBlocks).
C14_ReservedRegion ==
    disk.exists =>
        /\ ReservedRegion(disk.sb, disk.dir, disk.fat)
        /\ (Ran("dmake") \/ Ran("dput") \/ Ran("ddel"))
               => ReservedRegion(sb, directory, FAT)

\* the last block of the volume allocated to a file after a deletion
C14_Witness ==
    /\ Ran("dput") /\ last.ret /\ deleted > 0
    /\ \E i \in ActiveSlots(disk.dir) :
           (disk.sb.totalBlocks - 1) \in Range(ChainOf(disk.dir, disk.fat, i))

GeometryHolds(sbv) ==
    /\ sbv.dirStartBlock = 1
    /\ sbv.fatStartBlock = sbv.dirStartBlock + sbv.dirBlockCount
    /\ sbv.dataStartBlock = sbv.fatStartBlock + sbv.fatBlockCount

\* C18: after createDisk dirStartBlock = 1, fatStartBlock = dirStartBlock +
\* dirBlockCount and dataStartBlock = fatStartBlock + fatBlockCount, and no
\* dput, dget, ddel, dls or dmap changes a field of the stored superblock or
\* leaves in the handle a superblock other than the stored one.
C18_GeometryImmutable ==
    [][/\ disk'.exists => GeometryHolds(disk'.sb)
       /\ (last'.op = "dmake" /\ last'.ret) => sb' = disk'.sb
       /\ (last'.op \in {"dput", "dget", "ddel", "dls", "dmap"} /\ disk.exists)
              => /\ disk'.sb = disk.sb
                 /\ sb' = disk.sb]_vars

\* a map printed from a disk that has seen imports and a deletion
C18_Witness ==
    /\ last.op = "dmap" /\ last.ret /\ deleted > 0
    /\ ActiveSlots(disk.dir) # {}
    /\ sb = disk.sb /\ GeometryHolds(sb)
    /\ sb.dataStartBlock < sb.totalBlocks

\* the class of block b, read off the superblock, the FAT and the chains
ClassOf(sbv, dir, fat, b) ==
    LET owners == {i \in ActiveSlots(dir) : b \in Range(ChainOf(dir, fat, i))}
    IN  IF b = 0 THEN BlockClass("Superblock", <<>>, "occupied")
        ELSE IF b \in sbv.dirStartBlock..(sbv.dirStartBlock + sbv.dirBlockCount - 1)
        THEN BlockClass("Directory", <<>>, "occupied")
        ELSE IF b \in sbv.fatStartBlock..(sbv.fatStartBlock + sbv.fatBlockCount - 1)
        THEN BlockClass("FAT", <<>>, "occupied")
        ELSE IF fat[b] = FAT_FREE THEN BlockClass("Free", <<>>, "free")
        ELSE IF owners = {} THEN BlockClass("Unknown", <<>>, "occupied")
        ELSE BlockClass("File",
                        CStr(dir[CHOOSE i \in owners : \A j \in owners : i <= j].name),
                        "occupied")

\* C19: the ranges showMap prints are consecutive, start at block 0, end at
\* block totalBlocks - 1 and do not overlap; every block of a range has the
\* (type, status) of the range, and two adjacent ranges differ in it.
C19_MapCoalescing ==
    (last.op = "dmap" /\ last.ret)
        => LET m == hostOut
               n == Len(hostOut)
           IN  /\ n >= 1
               /\ m[1].start = 0
               /\ m[n].end = sb.totalBlocks - 1
               /\ \A k \in 1..n :
                      /\ m[k].start <= m[k].end
                      /\ \A b \in m[k].start..m[k].end :
                             ClassOf(sb, directory, FAT, b) = m[k].class
               /\ \A k \in 1..(n - 1) :
                      /\ m[k + 1].start = m[k].end + 1
                      /\ m[k + 1].class # m[k].class

\* a file of three blocks printed as one range, followed by a free range
C19_Witness ==
    /\ last.op = "dmap" /\ last.ret
    /\ \E k \in 1..(Len(hostOut) - 1) :
           /\ hostOut[k].class.type = "File"
           /\ hostOut[k].end = hostOut[k].start + 2
           /\ hostOut[k + 1].class.type = "Free"
           /\ hostOut[k + 1].end > hostOut[k + 1].start

\* the slot a successful copyFromHost filled: active after it, free before
ImportedSlot ==
    CHOOSE i \in ActiveSlots(directory') \ ActiveSlots(disk.dir) : TRUE

\* C21: a successful copyFromHost of a file needing n = ceil(size / BLOCK_SIZE)
\* blocks builds a chain of exactly the n lowest blocks of the data region
\* that were FREE before the call, linked in strictly ascending order:
\* firstBlock is the lowest, every entry holds the index of the next higher
\* block and the highest holds FAT_EOF.
C21_FirstFitBlocks ==
    [][(last'.op = "dput" /\ last'.ret)
       => /\ Cardinality(ActiveSlots(directory') \ ActiveSlots(disk.dir)) = 1
          /\ LET free  == FreeDataBlocks(disk.sb, disk.fat)
                 n     == CeilBlocks(RunsLen(last'.content))
                 chain == ChainOf(directory', FAT', ImportedSlot)
             IN  /\ directory'[ImportedSlot].size = RunsLen(last'.content)
                 /\ Len(chain) = n
                 /\ Range(chain) \subseteq free
                 /\ \A b \in Range(chain) :
                        \A c \in free \ Range(chain) : b < c
                 /\ directory'[ImportedSlot].firstBlock = chain[1]
                 /\ \A k \in 1..(n - 1) :
                        chain[k] < chain[k + 1] /\ FAT'[chain[k]] = chain[k + 1]
                 /\ FAT'[chain[n]] = FAT_EOF
                 /\ disk'.fat = FAT' /\ disk'.dir = directory']_vars

\* a file of three blocks put around a block in use, a FREE block left above
C21_Witness ==
    /\ Ran("dput") /\ last.ret
    /\ CeilBlocks(RunsLen(last.content)) = 3
    /\ \E i \in ActiveSlots(directory) :
           LET chain == ChainOf(directory, FAT, i)
           IN  /\ directory[i].name = StrncpyName(last.name)
               /\ Len(chain) = 3
               /\ chain[2] > chain[1] + 1
               /\ FAT[chain[1] + 1] \notin {FAT_FREE, FAT_RESERVED}
               /\ \E c \in FreeDataBlocks(sb, FAT) : c > chain[3]

\* the characters of a name that the name field keeps
Kept(n) == SubSeq(n, 1, Min(Len(n), NAME_SIZE - 1))

\* C22: a successful copyFromHost stores the new entry in the lowest directory
\* slot that was free before the call, so that a slot deleteFile freed is
\* used before any higher free slot, and changes no other directory slot.
C22_FirstFitSlot ==
    [][(last'.op = "dput" /\ last'.ret)
       => LET free == DOMAIN disk.dir \ ActiveSlots(disk.dir)
          IN  /\ free # {}
              /\ LET s == CHOOSE i \in free : \A j \in free : i <= j
                 IN  /\ CStr(directory'[s].name) = Kept(last'.name)
                     /\ directory'[s].name[1] # 0
                     /\ directory'[s].size = RunsLen(last'.content)
                     /\ directory'[s].type = TYPE_FILE
                     /\ DOMAIN directory' = DOMAIN disk.dir
                     /\ \A j \in DOMAIN disk.dir :
                            j # s => directory'[j] = disk.dir[j]
                     /\ disk'.dir = directory']_vars

\* the new entry is in a slot a deletion freed, below a slot in use and
\* below a slot that is still free
C22_Witness ==
    /\ Ran("dput") /\ last.ret /\ deleted > 0
    /\ \E s, k, j \in DOMAIN directory :
           /\ s < k /\ k < j
           /\ CStr(directory[s].name) = Kept(last.name)
           /\ k \in ActiveSlots(directory)
           /\ CStr(directory[k].name) # Kept(last.name)
           /\ j \notin ActiveSlots(directory)

\* the host file that was imported into directory entry i
ImportedFor(dir, i) ==
    CHOOSE h \in HostFiles : Kept(BareName(h.path)) = CStr(dir[i].name)

\* C23: after createDisk and any sequence of copyFromHost and deleteFile
\* calls, successful or not, copyToHost of every file that is still active,
\* asked for by the name it was imported under, succeeds and writes exactly
\* the bytes that were imported for it.
C23_ContentIsolation ==
    (disk.exists /\ loadDisk(disk).ok)
        => \A i \in ActiveSlots(disk.dir) :
               LET h == ImportedFor(disk.dir, i)
                   r == copyToHost(disk, disk.dir, disk.fat,
                                   BareName(h.path), TRUE)
               IN  /\ r.ret
                   /\ RunsLen(r.out) = RunsLen(h.content)
                   /\ Bytes(r.out) = Bytes(h.content)

-----------------------------------------------------------------------------
(* Properties of the commands stopped on their way (SpecCrash) *)

\* C6: at every point at which copyFromHost or deleteFile can be stopped,
\* the stored directory and the stored FAT are both those the operation
\* loaded or both those it leaves when it returns.
C6_NoPartialPersistence ==
    pc \in {"put-data", "put-fat", "del-dir", "del-fat"}
        => \/ disk.dir = ctx.preDir /\ disk.fat = ctx.preFat
           \/ disk.dir = directory /\ disk.fat = FAT

\* C7: a copyFromHost stopped after some or all of its data blocks were
\* written and before writeDirectory leaves the stored directory and the
\* stored FAT as the import loaded them, and a loadDisk that follows finds
\* no entry of the file's name.
C7_InterruptedImportUnobserved ==
    [][(pc = "put-data" /\ pc' # "put-fat")
       => /\ disk'.dir = ctx.preDir
          /\ disk'.fat = ctx.preFat
          /\ pc' = "idle"
                 => /\ loadDisk(disk').ok
                    /\ loadDisk(disk').directory = ctx.preDir
                    /\ loadDisk(disk').FAT = ctx.preFat
                    /\ findDirectoryEntry(ctx.name, loadDisk(disk').directory) < 0
         ]_vars

\* an import stopped with data written on a disk no import ever completed on
C7_Witness ==
    /\ pc = "idle" /\ last.op = "dput" /\ last.err = "interrupted"
    /\ disk.exists /\ deleted = 0
    /\ ActiveSlots(disk.dir) = {}
    /\ \E b \in DOMAIN disk.data :
           disk.data[b] # ZeroBlock /\ disk.fat[b] = FAT_FREE

\* C13: whatever the directory and the FAT hold, a chain that leads into a
\* RESERVED or a FREE block included, deleteFile never turns an entry that
\* was RESERVED into FREE.
C13_ReservedNeverFreed ==
    [][(pc = "idle" /\ pc' \in {"del-dir", "del-loop"})
       => \A b \in DOMAIN disk.fat :
              disk.fat[b] = FAT_RESERVED => FAT'[b] = FAT_RESERVED]_vars

-----------------------------------------------------------------------------
(* Properties of loading (SpecLoad) *)

\* C16: loadDisk succeeds exactly when the 8 bytes of the magic field equal
\* "TTvfs01" followed by a NUL byte; otherwise it fails and no directory and
\* no FAT are loaded.
C16_MagicValidation ==
    last.op \in {"dls", "dmap"}
        => /\ last.ret <=> disk.sb.fsName = FS_NAME
           /\ ~last.ret => /\ last.err = "load-failed"
                           /\ directory = EmptyDirectory
                           /\ FAT = EmptyFAT

-----------------------------------------------------------------------------
(* Properties of createDisk (SpecFormat) *)

\* the size createDisk(size) is to give: DEFAULT_DISK_SIZE for 0
AskedSize(size) == IF size = 0 THEN DEFAULT_DISK_SIZE ELSE size

\* C17: after createDisk(s) returns, the container is totalBlocks *
\* BLOCK_SIZE bytes long and that length is the least multiple of BLOCK_SIZE
\* that is >= s; createDisk(1000) gives 1024 bytes in 2 blocks and
\* createDisk(0) the default 10 MiB.
C17_SizeRounding ==
    (last.op = "format" /\ last.ret)
        => /\ disk.len = disk.sb.totalBlocks * BLOCK_SIZE
           /\ disk.len % BLOCK_SIZE = 0
           /\ disk.len >= AskedSize(last.size)
           /\ disk.len - AskedSize(last.size) < BLOCK_SIZE
           /\ last.size = 1000 => disk.len = 1024 /\ disk.sb.totalBlocks = 2
           /\ last.size = 0 => disk.len = 10 * 1024 * 1024

\* C20: for every size dmake accepts createDisk computes dataStartBlock <=
\* totalBlocks, returns, and leaves the directory and FAT regions inside the
\* totalBlocks * BLOCK_SIZE bytes of the container.
C20_MetadataFits ==
    (last.op = "format" /\ MIN_DISK_SIZE <= last.size
                        /\ last.size <= MAX_DISK_SIZE)
        => /\ last.ret
           /\ disk.sb.dataStartBlock <= disk.sb.totalBlocks
           /\ disk.len = disk.sb.totalBlocks * BLOCK_SIZE

====
